---------------------------- MODULE Spec2Model ----------------------------
(***************************************************************************)
(* joycontrol socket interface: the line protocol server, the command      *)
(* parser and dispatcher of ControllerSocketInterface                       *)
(* (src/joycontrol/socket_interface.py) and the commands registered by      *)
(* run_controller_socket.py (hold, release, nfc).                           *)
(*                                                                          *)
(* A Python string is modelled by the sequence of its colon-free fields,    *)
(* i.e. by the value of str.split(":"): "btn:a:true" is <<"btn","a","true">>*)
(* and the empty string is <<"">>.  split and join are inverse to each      *)
(* other, so nothing of the text is lost.                                   *)
(***************************************************************************)
EXTENDS Integers, Sequences, FiniteSets, TLC

VARIABLES
    commands,     \* SocketInterface.commands: name -> handler
    server,       \* ControllerSocketInterface.server: "none" | "serving"
    conn,         \* per connection: the handle_client task and its handle_line
    buttons,      \* controller_state.button_state: the buttons held
    lstick,       \* controller_state.l_stick_state
    rstick,       \* controller_state.r_stick_state
    nfc,          \* controller_state nfc content
    clears,       \* number of clear_nfc(sec) tasks sleeping
    linkUp,       \* whether the device link is connected
    controller,   \* controller_state.get_controller()
    pline,        \* parser harness: the line handed to handle_line
    pout,         \* parser harness: what the parsing stage produced
    regLog,       \* registry harness: the add_command calls made so far
    calls,        \* nfc harness: the calls of nfc(file_path, sec) and their clear tasks
    call          \* command harness: one direct call of a command and its outcome

vars == <<commands, server, conn, buttons, lstick, rstick, nfc, clears,
          linkUp, controller, pline, pout, regLog, calls, call>>

device == <<buttons, lstick, rstick, nfc, clears>>
harness == <<pline, pout, regLog, calls, call>>

----------------------------------------------------------------------------
\* Bounds of the model.

MaxLines == 2
MaxFields == 4
MaxRegs == 3
MaxLoads == 2
MaxSec == 1
MaxArgs == 2

\* The connections: one and another, which is what the claims speak of.
Conns == {1, 2}

----------------------------------------------------------------------------
\* Strings.

EmptyLine == <<"">>

RECURSIVE JoinColon(_)
JoinColon(fields) ==
    IF Len(fields) = 1 THEN fields[1]
    ELSE fields[1] \o ":" \o JoinColon(Tail(fields))

\* line.startswith(prefix + ":")
StartsWith(line, prefix) == Len(line) >= 2 /\ line[1] = prefix

----------------------------------------------------------------------------
\* The parsing stage of handle_line.  raised: the tuple unpacking of
\* line.split(":") raised ValueError (wrong number of fields).

Parsed(c, a) == [raised |-> FALSE, cmd |-> c, args |-> a]
UnpackError == [raised |-> TRUE, cmd |-> "", args |-> <<>>]

ParseBtn(line) ==
    IF Len(line) # 3 THEN UnpackError
    ELSE IF line[3] = "true" THEN Parsed("hold", <<line[2]>>)
    ELSE Parsed("release", <<line[2]>>)

\* the stick branch hands the final field to cmd_stick as its value
ParseStick_PassesValue(line) ==
    IF Len(line) # 4 THEN UnpackError
    ELSE Parsed("stick", <<line[2], line[3], line[4]>>)

ParseStick_KeepDirection(line) ==
    IF Len(line) # 4 THEN UnpackError
    ELSE Parsed("stick", <<line[2], line[3]>>)

ParseStick(line) ==
    IF Len(line) # 4 THEN UnpackError
    ELSE IF line[4] = "true" THEN Parsed("stick", <<line[2], line[3]>>)
    ELSE Parsed("stick", <<line[2], "center">>)

ParseNfc(line) == Parsed("nfc", <<JoinColon(Tail(line))>>)

Parse(line) ==
    IF StartsWith(line, "btn") THEN ParseBtn(line)
    ELSE IF StartsWith(line, "stick") THEN ParseStick(line)
    ELSE IF StartsWith(line, "nfc") THEN ParseNfc(line)
    ELSE Parsed("", <<>>)

----------------------------------------------------------------------------
\* The command registry (SocketInterface).

NoCommands == <<>>

\* add_command with the duplicate check left out: the last registration wins.
add_command_Overwrite(cmds, name, command) ==
    [ok |-> TRUE,
     commands |-> [n \in (DOMAIN cmds) \cup {name} |->
                      IF n = name THEN command ELSE cmds[n]]]

\* add_command(name, command): ok = FALSE is the ValueError
\* 'Command <name> already registered.' (DuplicateCommand).
add_command(cmds, name, command) ==
    IF name \in DOMAIN cmds
    THEN [ok |-> FALSE, commands |-> cmds]
    ELSE [ok |-> TRUE,
          commands |-> [n \in (DOMAIN cmds) \cup {name} |->
                           IF n = name THEN command ELSE cmds[n]]]

\* The cmd_<name> methods of ControllerSocketInterface: hasattr(self, 'cmd_' + cmd).
BuiltIns == {"stick"}

\* Resolution with the two lookups swapped: the registry wins.
Resolve_RegistryFirst(cmd, cmds) ==
    IF cmd \in DOMAIN cmds THEN [via |-> "registry", handler |-> cmds[cmd]]
    ELSE IF cmd \in BuiltIns THEN [via |-> "builtin", handler |-> cmd]
    ELSE [via |-> "notfound", handler |-> "none"]

\* The if / elif / else of handle_line that picks the handler.
Resolve(cmd, cmds) ==
    IF cmd \in BuiltIns THEN [via |-> "builtin", handler |-> cmd]
    ELSE IF cmd \in DOMAIN cmds THEN [via |-> "registry", handler |-> cmds[cmd]]
    ELSE [via |-> "notfound", handler |-> "none"]

\* The command harness before any call.
NoCall == [op |-> "none"]

\* handle_line from its entry to the choice of the handler.
\* state: "noop" the line is empty, "raised" the unpacking raised ValueError,
\* "parsed" a handler (or none) was chosen.
NotStarted ==
    [state |-> "none", cmd |-> "", args |-> <<>>, via |-> "none", handler |-> "none"]

\* handle_line without its "if not line: return".
HandleLineStart_NoEmptyCheck(line, cmds) ==
    LET p == Parse(line)
        r == Resolve(p.cmd, cmds)
    IN  IF p.raised THEN [NotStarted EXCEPT !.state = "raised"]
        ELSE [state |-> "parsed", cmd |-> p.cmd, args |-> p.args,
              via |-> r.via, handler |-> r.handler]

HandleLineStart(line, cmds) ==
    IF line = EmptyLine THEN [NotStarted EXCEPT !.state = "noop"]
    ELSE LET p == Parse(line)
             r == Resolve(p.cmd, cmds)
         IN  IF p.raised THEN [NotStarted EXCEPT !.state = "raised"]
             ELSE [state |-> "parsed", cmd |-> p.cmd, args |-> p.args,
                   via |-> r.via, handler |-> r.handler]

\* The registry of run_controller_socket.py when the server starts.
ProgramCommands ==
    add_command(add_command(add_command(NoCommands, "hold", "hold").commands,
                            "release", "release").commands,
                "nfc", "nfc").commands

----------------------------------------------------------------------------
\* The device state the commands act on (joycontrol.controller_state).

Controllers == {"PRO_CONTROLLER", "JOYCON_L"}

\* button_state.get_available_buttons()
AvailableButtons(ctl) ==
    IF ctl = "JOYCON_L" THEN {"l", "zl", "up"} ELSE {"a", "b", "up"}

InitStick == [h |-> 0, v |-> 0]

PresetDirections == {"center", "up", "down", "left", "right"}

\* StickState.set_center / set_up / set_down / set_left / set_right
Preset(direction) ==
    CASE direction = "center" -> [h |-> 2048, v |-> 2048]
      [] direction = "up"     -> [h |-> 2048, v |-> 4095]
      [] direction = "down"   -> [h |-> 2048, v |-> 1]
      [] direction = "left"   -> [h |-> 1, v |-> 2048]
      [] direction = "right"  -> [h |-> 4095, v |-> 2048]

\* button_press / button_release
button_press(held, args) == held \cup {args[i] : i \in 1..Len(args)}
button_release(held, args) == held \ {args[i] : i \in 1..Len(args)}

\* controller_state.set_nfc(content); NoTag is None
NoTag == "<None>"

\* The files of the host: open(file_path, 'rb') and its content; a Broken
\* file can be opened and its read raises.
Readable == {"f", "f:g"}
Broken == {"bad"}
FileContent(path) == "content of " \o path

----------------------------------------------------------------------------
\* Stick command logic.

NoValue == "<None>"

\* int(value) of the decimal strings the model uses; anything else raises.
IntStrings == {"0", "500"}
IntOf(value) == IF value = "500" THEN 500 ELSE 0

\* _set_stick with a direct set that moves the axis by value
set_stick_Relative(stick, direction, value) ==
    IF direction \in PresetDirections
    THEN [err |-> "none", stick |-> Preset(direction)]
    ELSE IF direction \in {"h", "horizontal"}
    THEN IF value = NoValue THEN [err |-> "MissingValue", stick |-> stick]
         ELSE IF value \notin IntStrings THEN [err |-> "InvalidValue", stick |-> stick]
         ELSE [err |-> "none", stick |-> [stick EXCEPT !.h = (@ + IntOf(value)) % 4096]]
    ELSE IF direction \in {"v", "vertical"}
    THEN IF value = NoValue THEN [err |-> "MissingValue", stick |-> stick]
         ELSE IF value \notin IntStrings THEN [err |-> "InvalidValue", stick |-> stick]
         ELSE [err |-> "none", stick |-> [stick EXCEPT !.v = (@ + IntOf(value)) % 4096]]
    ELSE [err |-> "InvalidDirection", stick |-> stick]

\* _set_stick(stick, direction, value)
set_stick(stick, direction, value) ==
    IF direction \in PresetDirections
    THEN [err |-> "none", stick |-> Preset(direction)]
    ELSE IF direction \in {"h", "horizontal"}
    THEN IF value = NoValue THEN [err |-> "MissingValue", stick |-> stick]
         ELSE IF value \notin IntStrings THEN [err |-> "InvalidValue", stick |-> stick]
         ELSE [err |-> "none", stick |-> [stick EXCEPT !.h = IntOf(value)]]
    ELSE IF direction \in {"v", "vertical"}
    THEN IF value = NoValue THEN [err |-> "MissingValue", stick |-> stick]
         ELSE IF value \notin IntStrings THEN [err |-> "InvalidValue", stick |-> stick]
         ELSE [err |-> "none", stick |-> [stick EXCEPT !.v = IntOf(value)]]
    ELSE [err |-> "InvalidDirection", stick |-> stick]

\* cmd_stick with _set_stick's checks made before the side is looked at
cmd_stick_DirectionFirst(l, r, side, direction, value) ==
    IF set_stick(l, direction, value).err # "none"
    THEN [err |-> set_stick(l, direction, value).err, l |-> l, r |-> r]
    ELSE IF side \in {"l", "left"}
    THEN [err |-> "none", l |-> set_stick(l, direction, value).stick, r |-> r]
    ELSE IF side \in {"r", "right"}
    THEN [err |-> "none", l |-> l, r |-> set_stick(r, direction, value).stick]
    ELSE [err |-> "InvalidSide", l |-> l, r |-> r]

\* cmd_stick(side, direction, value=None) on the pair of sticks
cmd_stick(l, r, side, direction, value) ==
    IF side \in {"l", "left"}
    THEN LET s == set_stick(l, direction, value)
         IN  [err |-> s.err, l |-> s.stick, r |-> r]
    ELSE IF side \in {"r", "right"}
    THEN LET s == set_stick(r, direction, value)
         IN  [err |-> s.err, l |-> l, r |-> s.stick]
    ELSE [err |-> "InvalidSide", l |-> l, r |-> r]

\* cmd_stick(*args): the call made by handle_line
call_stick(l, r, args) ==
    IF Len(args) = 2 THEN cmd_stick(l, r, args[1], args[2], NoValue)
    ELSE IF Len(args) = 3 THEN cmd_stick(l, r, args[1], args[2], args[3])
    ELSE [err |-> "TypeError", l |-> l, r |-> r]

----------------------------------------------------------------------------
\* The registered commands (run_controller_socket.py).

\* ensure_valid_button that returns after the first button
ensure_valid_button_FirstOnly(ctl, args) ==
    args = <<>> \/ args[1] \in AvailableButtons(ctl)

\* ensure_valid_button(controller_state, *buttons)
ensure_valid_button(ctl, args) ==
    \A i \in 1..Len(args) : args[i] \in AvailableButtons(ctl)

\* hold / release up to their first await: the checks
button_checks(ctl, args) ==
    IF args = <<>> THEN "MissingArgument"
    ELSE IF ~ensure_valid_button(ctl, args) THEN "ValidationError"
    ELSE "none"

\* hold calls button_release where it should press.
hold_resume_Releases(held, args) == button_release(held, args)

\* hold after connect() has returned: await button_press(controller_state, *args)
hold_resume(held, args) == button_press(held, args)

\* release after connect() has returned: await button_release(controller_state, *args)
release_resume(held, args) == button_release(held, args)

\* nfc with the file_path check before the controller check
nfc_checks_PathFirst(ctl, args) ==
    IF Len(args) \notin {1, 2} THEN "TypeError"
    ELSE IF args[1] = "" THEN "MissingArgument"
    ELSE IF ctl = "JOYCON_L" THEN "UnsupportedOperation"
    ELSE "none"

\* nfc(file_path, sec) up to its first await: the checks
nfc_checks(ctl, args) ==
    IF Len(args) \notin {1, 2} THEN "TypeError"
    ELSE IF ctl = "JOYCON_L" THEN "UnsupportedOperation"
    ELSE IF args[1] = "" THEN "MissingArgument"
    ELSE "none"

\* nfc after clear_nfc(0): open(file_path, 'rb') raises or the read starts
nfc_open(path) == IF path \in Readable \cup Broken THEN "none" ELSE "IOError"

\* nfc: content = await _loop.run_in_executor(None, nfc_file.read) raises or returns
nfc_read(path) == IF path \in Broken THEN "IOError" ELSE "none"

\* clear_nfc(sec): asyncio.sleep(sec) is over once sec time units have passed
\* since the task was started; reached one time unit late.
sleep_over_Late(sec, age) == age >= sec + 1

sleep_over(sec, age) == age >= sec

----------------------------------------------------------------------------
\* The server: one handle_client task per connection.

\* pc: "idle"      not accepted yet
\*     "read"      in reader.readuntil()
\*     "connect"   hold / release in controller_state.connect()
\*     "nfc_clear" nfc in clear_nfc(0), at asyncio.sleep(0)
\*     "nfc_read"  nfc in run_in_executor(None, nfc_file.read)
\*     "flush"     handle_line in controller_state.send()
\*     "dead"      the task ended, with the exception in raised
\* line .. flushed describe the last call of handle_line; nread and ndone
\* count the lines read and the calls of handle_line that have ended.
NewConn ==
    [pc |-> "idle", line |-> <<>>, cmd |-> "", args |-> <<>>, via |-> "none",
     handler |-> "none", err |-> "none", flushed |-> FALSE, raised |-> "none",
     nread |-> 0, ndone |-> 0]

\* The lines the clients send.
ClientLines ==
    { <<"">>,
      <<"btn", "a", "true">>, <<"btn", "a", "false">>, <<"btn", "a">>,
      <<"stick", "l", "up", "true">>,
      <<"nfc", "f">>, <<"nfc", "">>,
      <<"foo", "bar">> }

\* Names under which the host registers a handler of its own.
ExtNames == {"stick", ""}

\* handle_client reads the next line while the last one is still dispatched.
AwaitingLine_Pipelined(c) == conn[c].pc \notin {"idle", "dead"}

\* handle_client is at "line = await reader.readuntil()"
AwaitingLine(c) == conn[c].pc = "read"

\* A failing connection takes the whole server down.
Terminate_All(c, exc) ==
    [d \in Conns |-> [conn[d] EXCEPT !.pc = "dead", !.raised = exc]]

\* An exception leaves handle_client: that task ends, no other does.
Terminate(c, exc) ==
    [conn EXCEPT ![c].pc = "dead", ![c].raised = exc, ![c].ndone = @ + 1]

\* The handler, from its call to its first suspension (or its end).
FirstSegment(h, args, extRaises) ==
    CASE h = "stick" ->
           LET s == call_stick(lstick, rstick, args)
           IN  [pc |-> "flush", err |-> s.err, l |-> s.l, r |-> s.r]
      [] h \in {"hold", "release"} ->
           LET e == button_checks(controller, args)
           IN  [pc |-> IF e = "none" THEN "connect" ELSE "flush", err |-> e,
                l |-> lstick, r |-> rstick]
      [] h = "nfc" ->
           LET e == nfc_checks(controller, args)
           IN  [pc |-> IF e = "none" THEN "nfc_clear" ELSE "flush", err |-> e,
                l |-> lstick, r |-> rstick]
      [] h = "ext" ->
           [pc |-> "flush", err |-> IF extRaises THEN "HandlerError" ELSE "none",
            l |-> lstick, r |-> rstick]
      [] OTHER ->
           [pc |-> "flush", err |-> "none", l |-> lstick, r |-> rstick]

\* handle_line(line) up to its first suspension.
StartLine(c, line, extRaises) ==
    LET p == HandleLineStart(line, commands)
        f == FirstSegment(p.handler, p.args, extRaises)
        read == [conn[c] EXCEPT !.line = line, !.nread = @ + 1, !.cmd = "",
                     !.args = <<>>, !.via = "none", !.handler = "none",
                     !.err = "none", !.flushed = FALSE]
    IN  IF p.state = "noop"
        THEN [conn |-> [conn EXCEPT ![c] = [read EXCEPT !.ndone = @ + 1]],
              l |-> lstick, r |-> rstick]
        ELSE IF p.state = "raised"
        THEN [conn |-> [Terminate(c, "ValueError") EXCEPT
                           ![c].line = line, ![c].nread = @ + 1, ![c].cmd = "",
                           ![c].args = <<>>, ![c].via = "none",
                           ![c].handler = "none", ![c].err = "none",
                           ![c].flushed = FALSE],
              l |-> lstick, r |-> rstick]
        ELSE [conn |-> [conn EXCEPT ![c] =
                           [read EXCEPT !.cmd = p.cmd, !.args = p.args,
                                !.via = p.via, !.handler = p.handler,
                                !.err = f.err, !.pc = f.pc]],
              l |-> f.l, r |-> f.r]

\* _main: _register_commands_with_controller_state registers hold, release, nfc.
RegisterCommands ==
    /\ server = "constructed"
    /\ LET a == add_command(commands, "hold", "hold")
           b == add_command(a.commands, "release", "release")
           n == add_command(b.commands, "nfc", "nfc")
       IN  /\ commands' = n.commands
           /\ server' = IF a.ok /\ b.ok /\ n.ok THEN "registered" ELSE "aborted"
    /\ UNCHANGED <<conn, device, linkUp, controller, harness>>

\* The host adds a command of its own before the server starts.
AddCommand(name) ==
    /\ server = "registered"
    /\ LET a == add_command(commands, name, "ext")
       IN  /\ a.ok
           /\ commands' = a.commands
    /\ UNCHANGED <<server, conn, device, linkUp, controller, harness>>

\* start_server
StartServer ==
    /\ server = "registered"
    /\ server' = "serving"
    /\ UNCHANGED <<commands, conn, device, linkUp, controller, harness>>

\* A client connects: asyncio starts handle_client(reader, writer).
Accept(c) ==
    /\ server = "serving"
    /\ conn[c].pc = "idle"
    /\ conn' = [conn EXCEPT ![c].pc = "read"]
    /\ UNCHANGED <<commands, server, device, linkUp, controller, harness>>

\* readuntil() returns a line and handle_line runs to its first suspension.
ReadLine(c, line, extRaises) ==
    /\ server = "serving"
    /\ AwaitingLine(c)
    /\ conn[c].nread < MaxLines
    /\ LET s == StartLine(c, line, extRaises)
       IN  /\ conn' = s.conn
           /\ lstick' = s.l
           /\ rstick' = s.r
    /\ UNCHANGED <<commands, server, buttons, nfc, clears, linkUp, controller, harness>>

\* readuntil() raises (the peer closed the connection).
ReadFail(c) ==
    /\ conn[c].pc = "read"
    /\ conn' = [Terminate(c, "ReadError") EXCEPT ![c].ndone = conn[c].ndone]
    /\ UNCHANGED <<commands, server, device, linkUp, controller, harness>>

\* hold / release: connect() returns, then button_press / button_release.
Connect(c) ==
    /\ conn[c].pc = "connect"
    /\ IF linkUp
       THEN /\ buttons' = IF conn[c].handler = "hold"
                          THEN hold_resume(buttons, conn[c].args)
                          ELSE release_resume(buttons, conn[c].args)
            /\ conn' = [conn EXCEPT ![c].pc = "flush"]
       ELSE /\ buttons' = buttons
            /\ conn' = [conn EXCEPT ![c].pc = "flush", ![c].err = "NotConnected"]
    /\ UNCHANGED <<commands, server, lstick, rstick, nfc, clears, linkUp, controller, harness>>

\* nfc opens the file before clear_nfc(0): a failure leaves the tag alone
NfcClear_OpenFirst(c) ==
    /\ conn[c].pc = "nfc_clear"
    /\ nfc' = IF nfc_open(conn[c].args[1]) = "none" THEN NoTag ELSE nfc
    /\ conn' = IF nfc_open(conn[c].args[1]) = "none"
               THEN [conn EXCEPT ![c].pc = "nfc_read"]
               ELSE [conn EXCEPT ![c].pc = "flush", ![c].err = "IOError"]
    /\ UNCHANGED <<commands, server, buttons, lstick, rstick, clears, linkUp, controller, harness>>

\* nfc: clear_nfc(0) resumes and clears the tag, then the file is opened.
NfcClear(c) ==
    /\ conn[c].pc = "nfc_clear"
    /\ nfc' = NoTag
    /\ conn' = IF nfc_open(conn[c].args[1]) = "none"
               THEN [conn EXCEPT ![c].pc = "nfc_read"]
               ELSE [conn EXCEPT ![c].pc = "flush", ![c].err = "IOError"]
    /\ UNCHANGED <<commands, server, buttons, lstick, rstick, clears, linkUp, controller, harness>>

\* nfc: the read returns; the content is set and clear_nfc(sec) is started.
NfcRead(c) ==
    /\ conn[c].pc = "nfc_read"
    /\ IF nfc_read(conn[c].args[1]) = "none"
       THEN /\ nfc' = FileContent(conn[c].args[1])
            /\ clears' = clears + 1
            /\ conn' = [conn EXCEPT ![c].pc = "flush"]
       ELSE /\ UNCHANGED <<nfc, clears>>
            /\ conn' = [conn EXCEPT ![c].pc = "flush", ![c].err = "IOError"]
    /\ UNCHANGED <<commands, server, buttons, lstick, rstick, linkUp, controller, harness>>

\* A clear_nfc(sec) task wakes up.
ClearFires ==
    /\ clears > 0
    /\ clears' = clears - 1
    /\ nfc' = NoTag
    /\ UNCHANGED <<commands, server, conn, buttons, lstick, rstick, linkUp, controller, harness>>

\* handle_line: await self.controller_state.send()
Flush(c) ==
    /\ conn[c].pc = "flush"
    /\ conn' = IF linkUp
               THEN [conn EXCEPT ![c].pc = "read", ![c].flushed = TRUE,
                                 ![c].ndone = @ + 1]
               ELSE [Terminate(c, "NotConnected") EXCEPT ![c].flushed = TRUE]
    /\ UNCHANGED <<commands, server, device, linkUp, controller, harness>>

\* The device link is lost.
LinkLost ==
    /\ linkUp
    /\ linkUp' = FALSE
    /\ UNCHANGED <<commands, server, conn, device, controller, harness>>

Init ==
    /\ commands = NoCommands
    /\ server = "constructed"
    /\ conn = [c \in Conns |-> NewConn]
    /\ buttons = {}
    /\ lstick = InitStick
    /\ rstick = InitStick
    /\ nfc = NoTag
    /\ clears = 0
    /\ linkUp = TRUE
    /\ controller \in Controllers
    /\ pline = <<>>
    /\ pout = NotStarted
    /\ regLog = <<>>
    /\ calls = <<>>
    /\ call = NoCall

Next ==
    \/ RegisterCommands
    \/ \E name \in ExtNames : AddCommand(name)
    \/ StartServer
    \/ \E c \in Conns : Accept(c)
    \/ \E c \in Conns, line \in ClientLines, x \in BOOLEAN : ReadLine(c, line, x)
    \/ \E c \in Conns : ReadFail(c)
    \/ \E c \in Conns : Connect(c)
    \/ \E c \in Conns : NfcClear(c)
    \/ \E c \in Conns : NfcRead(c)
    \/ \E c \in Conns : Flush(c)
    \/ ClearFires
    \/ LinkLost

Spec == Init /\ [][Next]_vars

----------------------------------------------------------------------------
\* The parser on its own: every line of up to MaxFields fields.

Fields == {"", "btn", "stick", "nfc", "a", "up", "true", "false", "foo"}

Lines == UNION {[1..n -> Fields] : n \in 1..MaxFields}

InitParse ==
    /\ commands = ProgramCommands
    /\ server = "serving"
    /\ conn = [c \in Conns |-> NewConn]
    /\ buttons = {}
    /\ lstick = InitStick
    /\ rstick = InitStick
    /\ nfc = NoTag
    /\ clears = 0
    /\ linkUp = TRUE
    /\ controller = "PRO_CONTROLLER"
    /\ pline \in Lines
    /\ pout = NotStarted
    /\ regLog = <<>>
    /\ calls = <<>>
    /\ call = NoCall

ParseLine ==
    /\ pout.state = "none"
    /\ pout' = HandleLineStart(pline, commands)
    /\ UNCHANGED <<commands, server, conn, device, linkUp, controller, pline, regLog, calls, call>>

SpecParse == InitParse /\ [][ParseLine]_vars

----------------------------------------------------------------------------
\* The registry on its own: any sequence of up to MaxRegs add_command calls.

RegNames == {"hold", "stick", "tap"}
RegHandlers == {"h1", "h2"}

InitRegistry ==
    /\ commands = NoCommands
    /\ server = "constructed"
    /\ conn = [c \in Conns |-> NewConn]
    /\ buttons = {}
    /\ lstick = InitStick
    /\ rstick = InitStick
    /\ nfc = NoTag
    /\ clears = 0
    /\ linkUp = TRUE
    /\ controller = "PRO_CONTROLLER"
    /\ pline = <<>>
    /\ pout = NotStarted
    /\ regLog = <<>>
    /\ calls = <<>>
    /\ call = NoCall

Register(name, command) ==
    /\ Len(regLog) < MaxRegs
    /\ LET a == add_command(commands, name, command)
       IN  /\ commands' = a.commands
           /\ regLog' = Append(regLog, [name |-> name, command |-> command, ok |-> a.ok])
    /\ UNCHANGED <<server, conn, device, linkUp, controller, pline, pout, calls, call>>

NextRegistry == \E name \in RegNames, command \in RegHandlers : Register(name, command)

SpecRegistry == InitRegistry /\ [][NextRegistry]_vars

----------------------------------------------------------------------------
\* Two clients that only hold buttons, on a link that stays connected.

HoldLines == {<<"btn", "a", "true">>, <<"btn", "b", "true">>}

InitHold ==
    /\ commands = ProgramCommands
    /\ server = "serving"
    /\ conn = [c \in Conns |-> NewConn]
    /\ buttons = {}
    /\ lstick = InitStick
    /\ rstick = InitStick
    /\ nfc = NoTag
    /\ clears = 0
    /\ linkUp = TRUE
    /\ controller = "PRO_CONTROLLER"
    /\ pline = <<>>
    /\ pout = NotStarted
    /\ regLog = <<>>
    /\ calls = <<>>
    /\ call = NoCall

NextHold ==
    \/ \E c \in Conns : Accept(c)
    \/ \E c \in Conns, line \in HoldLines : ReadLine(c, line, FALSE)
    \/ \E c \in Conns : Connect(c)
    \/ \E c \in Conns : Flush(c)

\* The event loop resumes every task whose await has completed.
SpecHold ==
    /\ InitHold
    /\ [][NextHold]_vars
    /\ \A c \in Conns : WF_vars(Connect(c)) /\ WF_vars(Flush(c))

----------------------------------------------------------------------------
\* Vocabulary of the claims.

\* A call of handle_line is under way on connection c.
InFlight(c) == conn[c].pc \in {"connect", "nfc_clear", "nfc_read", "flush"}

\* The last call of handle_line on connection c has ended.
Ended(c) == conn[c].nread > 0 /\ conn[c].ndone = conn[c].nread

KnownPrefix(line) ==
    StartsWith(line, "btn") \/ StartsWith(line, "stick") \/ StartsWith(line, "nfc")

\* The five grammar forms of the line protocol.
BtnForm(line) == Len(line) = 3 /\ line[1] = "btn" /\ line[3] \in {"true", "false"}
StickForm(line) == Len(line) = 4 /\ line[1] = "stick" /\ line[4] \in {"true", "false"}
NfcForm(line) == Len(line) >= 2 /\ line[1] = "nfc"
GrammarForm(line) == BtnForm(line) \/ StickForm(line) \/ NfcForm(line)

----------------------------------------------------------------------------
\* C1: for every non-empty line, whatever the outcome of handling it, the
\* flush (controller_state.send) is attempted before handle_line finishes.
C1_FlushAlwaysAttempted ==
    \A c \in Conns :
        Ended(c) /\ conn[c].line # EmptyLine => conn[c].flushed

\* C2: the only failure that leaves handle_line and ends a connection's read
\* loop is the flush's 'not connected'; every other per-command error is
\* contained and the connection reads its next line.
C2_OnlyNotConnectedPropagates ==
    \A c \in Conns :
        conn[c].pc = "dead" => conn[c].raised \in {"ReadError", "NotConnected"}

\* C3: within one connection at most one command is in flight and line n+1
\* is not read before the dispatch of line n, its flush included, has ended,
\* whatever the other connections and the clear tasks do.
C3_NoPipelining ==
    \A c \in Conns :
        /\ conn[c].nread - conn[c].ndone \in {0, 1}
        /\ InFlight(c) => conn[c].nread = conn[c].ndone + 1
        /\ conn[c].pc = "read" => conn[c].nread = conn[c].ndone
        /\ conn[c].pc = "read" /\ conn[c].nread > 0 /\ conn[c].line # EmptyLine
               => conn[c].flushed

\* C3 witness: a connection has read and completed its second line while the
\* other connection has a command in flight and a clear task is pending.
C3_Witness ==
    /\ conn[1].pc = "read" /\ conn[1].nread = 2 /\ conn[1].ndone = 2
    /\ conn[1].flushed
    /\ InFlight(2)
    /\ clears > 0

\* C4: a failure that ends one connection's loop (a read failure or a 'not
\* connected' flush) changes nothing of any other connection, which can still
\* read its next line, and the server goes on accepting.
C4_FailureIsolated ==
    /\ [][\A c, d \in Conns :
             c # d /\ conn[c].pc # "dead" /\ conn'[c].pc = "dead"
                 => conn'[d] = conn[d] /\ server' = server]_vars
    /\ [](\A d \in Conns :
             /\ server = "serving" /\ conn[d].pc = "idle" => ENABLED Accept(d)
             /\ server = "serving" /\ conn[d].pc = "read" /\ conn[d].nread < MaxLines
                    => ENABLED ReadLine(d, <<"foo", "bar">>, FALSE))

\* C4 witness: connection 1 ended on a 'not connected' flush and connection 2
\* is still dispatching a line.
C4_Witness ==
    /\ conn[1].pc = "dead" /\ conn[1].raised = "NotConnected"
    /\ InFlight(2)

\* C5: with the link connected, once a hold of a and a hold of b are in
\* flight on two connections, both a and b are eventually held, and no hold
\* ever releases a button.
C5_BothHeld ==
    /\ \A c, d \in Conns :
          (/\ c # d
           /\ InFlight(c) /\ conn[c].line = <<"btn", "a", "true">>
           /\ InFlight(d) /\ conn[d].line = <<"btn", "b", "true">>)
              ~> ({"a", "b"} \subseteq buttons)
    /\ [][buttons \subseteq buttons']_vars

\* C5 witness: both holds were sent concurrently and both buttons are held.
C5_Witness ==
    /\ conn[1].line = <<"btn", "a", "true">> /\ conn[1].pc = "flush"
    /\ conn[2].line = <<"btn", "b", "true">> /\ conn[2].pc = "flush"
    /\ conn[1].nread = 1 /\ conn[2].nread = 1
    /\ buttons = {"a", "b"}

\* C6: a built-in handler wins over a registry entry of the same name; the
\* registry is consulted only when there is no built-in, and a name found
\* in neither is 'not found'.
C6_BuiltInPrecedence ==
    \A c \in Conns :
        (InFlight(c) \/ (Ended(c) /\ conn[c].flushed)) =>
            /\ conn[c].cmd \in BuiltIns
                   => conn[c].via = "builtin" /\ conn[c].handler = conn[c].cmd
            /\ conn[c].cmd \notin BuiltIns /\ conn[c].cmd \in DOMAIN commands
                   => conn[c].via = "registry"
                      /\ conn[c].handler = commands[conn[c].cmd]
            /\ conn[c].cmd \notin BuiltIns /\ conn[c].cmd \notin DOMAIN commands
                   => conn[c].via = "notfound" /\ conn[c].handler = "none"

\* C6 witness: stick is registered too, and a stick line ran the built-in.
C6_Witness ==
    /\ "stick" \in DOMAIN commands
    /\ commands["stick"] = "ext"
    /\ \E c \in Conns :
          /\ Ended(c) /\ conn[c].flushed
          /\ conn[c].cmd = "stick" /\ conn[c].via = "builtin"
          /\ lstick = Preset("up")

\* C7: the registry maps each name to the handler of its first registration:
\* a call succeeds exactly when its name is fresh, a duplicate changes
\* nothing, and a registered name is resolvable to its handler.
FirstReg(name) ==
    CHOOSE i \in 1..Len(regLog) :
        /\ regLog[i].name = name
        /\ \A j \in 1..(i - 1) : regLog[j].name # name

C7_FirstRegistrationWins ==
    /\ DOMAIN commands = {regLog[i].name : i \in 1..Len(regLog)}
    /\ \A i \in 1..Len(regLog) :
          regLog[i].ok <=> (\A j \in 1..(i - 1) : regLog[j].name # regLog[i].name)
    /\ \A n \in DOMAIN commands :
          /\ commands[n] = regLog[FirstReg(n)].command
          /\ n \notin BuiltIns
                 => Resolve(n, commands) =
                        [via |-> "registry", handler |-> regLog[FirstReg(n)].command]

\* C7 witness: tap was registered with h1, then again with h2 (refused),
\* and still maps to h1.
C7_Witness ==
    /\ Len(regLog) = 3
    /\ regLog[1] = [name |-> "tap", command |-> "h1", ok |-> TRUE]
    /\ regLog[2] = [name |-> "hold", command |-> "h2", ok |-> TRUE]
    /\ regLog[3] = [name |-> "tap", command |-> "h2", ok |-> FALSE]
    /\ commands["tap"] = "h1"

\* C8: a line without one of the prefixes btn:, stick:, nfc: is 'not found':
\* no handler is invoked, nothing is raised by the handling step and a flush
\* is still attempted.
C8_UnknownLineNotFound ==
    \A c \in Conns :
        conn[c].nread > 0 /\ conn[c].line # EmptyLine /\ ~KnownPrefix(conn[c].line)
            => /\ conn[c].via = "notfound"
               /\ conn[c].handler = "none"
               /\ conn[c].err = "none"
               /\ conn[c].raised # "ValueError"
               /\ Ended(c) => conn[c].flushed

\* C9: every non-empty line that matches none of the five grammar forms
\* parses to the empty command with no arguments and resolves to 'not found'.
C9_MalformedIsNotFound ==
    pout.state # "none" /\ pline # EmptyLine /\ ~GrammarForm(pline)
        => /\ pout.state = "parsed"
           /\ pout.cmd = ""
           /\ pout.args = <<>>
           /\ pout.via = "notfound"

\* C10: a line of one of the five grammar forms parses to the tabulated
\* command and arguments; the nfc path is everything after the first colon.
C10_ParserTable ==
    pout.state # "none" =>
        /\ BtnForm(pline) /\ pline[3] = "true"
               => pout.state = "parsed" /\ pout.cmd = "hold"
                  /\ pout.args = <<pline[2]>>
        /\ BtnForm(pline) /\ pline[3] = "false"
               => pout.state = "parsed" /\ pout.cmd = "release"
                  /\ pout.args = <<pline[2]>>
        /\ StickForm(pline) /\ pline[4] = "true"
               => pout.state = "parsed" /\ pout.cmd = "stick"
                  /\ pout.args = <<pline[2], pline[3]>>
        /\ StickForm(pline) /\ pline[4] = "false"
               => pout.state = "parsed" /\ pout.cmd = "stick"
                  /\ pout.args = <<pline[2], "center">>
        /\ NfcForm(pline)
               => pout.state = "parsed" /\ pout.cmd = "nfc"
                  /\ pout.args = <<JoinColon(Tail(pline))>>
        /\ pline = <<"nfc", "a", "up">> => pout.args = <<"a:up">>
        /\ pline = <<"nfc", "">> => pout.args = <<"">>

\* C10 witness: stick:a:up:false was parsed to stick [a, center].
C10_Witness ==
    /\ pline = <<"stick", "a", "up", "false">>
    /\ pout.state = "parsed"
    /\ pout.args = <<"a", "center">>

----------------------------------------------------------------------------
\* C11: an empty line is a no-op: no handler is invoked, no flush is
\* attempted, button, stick, tag and registry state and the pending clears
\* are unchanged, and the connection is back at reading its next line.
C11_EmptyLineNoOp ==
    /\ [](\A c \in Conns :
             conn[c].nread > 0 /\ conn[c].line = EmptyLine
                 => /\ Ended(c)
                    /\ ~conn[c].flushed
                    /\ conn[c].via = "none" /\ conn[c].handler = "none"
                    /\ conn[c].err = "none"
                    /\ conn[c].pc \in {"read", "dead"}
                    /\ conn[c].pc = "dead" => conn[c].raised = "ReadError"
                    /\ conn[c].pc = "read" /\ conn[c].nread < MaxLines
                           => ENABLED ReadLine(c, <<"foo", "bar">>, FALSE))
    /\ [][\A c \in Conns :
             conn'[c].nread # conn[c].nread /\ conn'[c].line = EmptyLine
                 => /\ UNCHANGED <<commands, buttons, lstick, rstick, nfc, clears>>
                    /\ conn'[c].pc = "read"]_vars

\* C11 witness: an empty line was handled while a tag was loaded and its
\* clear pending, and the connection is reading again.
C11_Witness ==
    /\ conn[1].line = EmptyLine /\ conn[1].nread = 2 /\ conn[1].ndone = 2
    /\ conn[1].pc = "read" /\ ~conn[1].flushed
    /\ nfc # NoTag /\ clears = 1

----------------------------------------------------------------------------
\* The nfc command on its own, with time: up to MaxLoads calls of
\* nfc(file_path, sec) that overlap freely, and the clear_nfc(sec) tasks.
\* (Spec leaves the delay open: there a pending clear may fire at any moment.)

CallIds == 1..MaxLoads
Secs == 0..MaxSec
Paths == {"f", "f:g", "nofile", "bad", ""}

\* pc: "new" not called, "clear" in clear_nfc(0), "read" in the file read,
\*     "done" returned, "failed" raised err.
\* timer: the clear_nfc(sec) task of the call: "none", "pending", "fired";
\* age: time since the call returned, counted up to sec + 1.
\* later_started: another call passed its checks after this one was called;
\* later_loaded: another call set the tag after this one returned.
NewCall ==
    [pc |-> "new", path |-> "", sec |-> 0, err |-> "none", timer |-> "none",
     age |-> 0, later_started |-> FALSE, later_loaded |-> FALSE]

\* ensure_future(clear_nfc(sec)) also cancels the clears that are pending.
schedule_clear_CancelsPending(cs, k) ==
    [j \in DOMAIN cs |->
        IF j = k THEN [cs[j] EXCEPT !.timer = "pending", !.age = 0, !.pc = "done"]
        ELSE IF cs[j].timer = "pending" THEN [cs[j] EXCEPT !.timer = "none"]
        ELSE cs[j]]

\* asyncio.ensure_future(clear_nfc(sec)): one more task, the others untouched
schedule_clear(cs, k) ==
    [cs EXCEPT ![k].timer = "pending", ![k].age = 0, ![k].pc = "done"]

ClearDue(k) == calls[k].timer = "pending" /\ sleep_over(calls[k].sec, calls[k].age)

\* nfc(path, sec) is called: the checks, up to clear_nfc(0)
CallNfc(k, path, sec) ==
    /\ calls[k].pc = "new"
    /\ LET e == nfc_checks(controller, <<path, sec>>)
       IN  calls' = [j \in CallIds |->
                        IF j = k
                        THEN [calls[k] EXCEPT !.path = path, !.sec = sec, !.err = e,
                                  !.pc = IF e = "none" THEN "clear" ELSE "failed"]
                        ELSE IF e = "none" /\ calls[j].pc # "new"
                        THEN [calls[j] EXCEPT !.later_started = TRUE]
                        ELSE calls[j]]
    /\ UNCHANGED <<commands, server, conn, device, linkUp, controller, pline, pout, regLog, call>>

\* nfc with ensure_future(clear_nfc(sec)) moved before the file is opened
CallClear_SchedulesFirst(k) ==
    /\ calls[k].pc = "clear"
    /\ nfc' = NoTag
    /\ clears' = clears + 1
    /\ calls' = [calls EXCEPT ![k].err = nfc_open(calls[k].path), ![k].timer = "pending",
                     ![k].pc = IF nfc_open(calls[k].path) = "none" THEN "read" ELSE "failed"]
    /\ UNCHANGED <<commands, server, conn, buttons, lstick, rstick, linkUp,
                   controller, pline, pout, regLog, call>>

\* clear_nfc(0) resumes and clears the tag, then the file is opened
CallClear(k) ==
    /\ calls[k].pc = "clear"
    /\ nfc' = NoTag
    /\ calls' = [calls EXCEPT ![k].err = nfc_open(calls[k].path),
                     ![k].pc = IF nfc_open(calls[k].path) = "none" THEN "read" ELSE "failed"]
    /\ UNCHANGED <<commands, server, conn, buttons, lstick, rstick, clears, linkUp,
                   controller, pline, pout, regLog, call>>

\* the read returns: set_nfc(content), ensure_future(clear_nfc(sec)), return;
\* or the read raises
CallRead(k) ==
    /\ calls[k].pc = "read"
    /\ IF nfc_read(calls[k].path) = "none"
       THEN /\ nfc' = FileContent(calls[k].path)
            /\ clears' = clears + 1
            /\ calls' = [j \in CallIds |->
                            IF j # k /\ calls[j].pc = "done"
                            THEN [schedule_clear(calls, k)[j] EXCEPT !.later_loaded = TRUE]
                            ELSE schedule_clear(calls, k)[j]]
       ELSE /\ UNCHANGED <<nfc, clears>>
            /\ calls' = [calls EXCEPT ![k].pc = "failed", ![k].err = "IOError"]
    /\ UNCHANGED <<commands, server, conn, buttons, lstick, rstick, linkUp,
                   controller, pline, pout, regLog, call>>

\* clear_nfc(sec) of call k wakes up: set_nfc(None)
FireClear(k) ==
    /\ ClearDue(k)
    /\ nfc' = NoTag
    /\ clears' = clears - 1
    /\ calls' = [calls EXCEPT ![k].timer = "fired"]
    /\ UNCHANGED <<commands, server, conn, buttons, lstick, rstick, linkUp,
                   controller, pline, pout, regLog, call>>

\* One time unit passes; the event loop runs a task whose sleep is over first.
Tick ==
    /\ \A k \in CallIds : ~ClearDue(k)
    /\ \E k \in CallIds : calls[k].pc = "done" /\ calls[k].age <= calls[k].sec
    /\ calls' = [k \in CallIds |->
                    IF calls[k].pc = "done" /\ calls[k].age <= calls[k].sec
                    THEN [calls[k] EXCEPT !.age = @ + 1]
                    ELSE calls[k]]
    /\ UNCHANGED <<commands, server, conn, device, linkUp, controller, pline, pout, regLog, call>>

InitNfc ==
    /\ commands = ProgramCommands
    /\ server = "serving"
    /\ conn = [c \in Conns |-> NewConn]
    /\ buttons = {}
    /\ lstick = InitStick
    /\ rstick = InitStick
    /\ nfc = NoTag
    /\ clears = 0
    /\ linkUp = TRUE
    /\ controller \in Controllers
    /\ pline = <<>>
    /\ pout = NotStarted
    /\ regLog = <<>>
    /\ calls = [k \in CallIds |-> NewCall]
    /\ call = NoCall

NextNfc ==
    \/ \E k \in CallIds, path \in Paths, sec \in Secs : CallNfc(k, path, sec)
    \/ \E k \in CallIds : CallClear(k)
    \/ \E k \in CallIds : CallRead(k)
    \/ \E k \in CallIds : FireClear(k)
    \/ Tick

\* Every started step of a call ends, sleeps end and time passes.
SpecNfc ==
    /\ InitNfc
    /\ [][NextNfc]_vars
    /\ \A k \in CallIds : WF_vars(CallClear(k)) /\ WF_vars(CallRead(k)) /\ WF_vars(FireClear(k))
    /\ WF_vars(Tick)

----------------------------------------------------------------------------
\* Claims about the nfc command in time.

Returned(k) == calls[k].pc = "done"
Returns(k) == calls[k].pc = "read" /\ calls'[k].pc = "done"
Expired(k) == Returned(k) /\ calls[k].age > calls[k].sec

\* C12 as stated: a successful load nfc(path, d) leaves the tag equal to the
\* file's content when it returns, and if no other load is started after it,
\* the tag is none at every time strictly more than d after it.
C12_ClearedUnlessLaterStart ==
    /\ [][\A k \in CallIds : Returns(k) => nfc' = FileContent(calls[k].path)]_vars
    /\ [](\A k \in CallIds : Expired(k) /\ ~calls[k].later_started => nfc = NoTag)

\* C12 amended: a successful load nfc(path, d) leaves the tag equal to the
\* file's content when it returns, and if no other load sets the tag after it
\* has returned (not even one that was started before it), the tag is none at
\* every time strictly more than d after it.
C12_ClearedUnlessLaterLoad ==
    /\ [][\A k \in CallIds : Returns(k) => nfc' = FileContent(calls[k].path)]_vars
    /\ [](\A k \in CallIds : Expired(k) /\ ~calls[k].later_loaded => nfc = NoTag)

\* a load with d = 1 on its own: its content was cleared after one time unit
C12_Witness ==
    /\ controller = "PRO_CONTROLLER"
    /\ Expired(1) /\ calls[1].sec = 1 /\ calls[1].age = 2 /\ calls[1].timer = "fired"
    /\ ~calls[1].later_loaded /\ calls[1].later_started
    /\ nfc = NoTag /\ calls[2].pc = "read"

\* C13: a load cancels no clear of an earlier load: when it returns it adds
\* one pending clear of its own and every other clear task is as it was, and
\* its immediate clear touches no task; so an earlier load's clear can null
\* the tag of a later load before the later load's delay is over.
C13_ClearsIndependent ==
    [][\A k \in CallIds :
          /\ Returns(k) =>
                /\ calls'[k].timer = "pending"
                /\ clears' = clears + 1
                /\ \A j \in CallIds \ {k} : calls'[j].timer = calls[j].timer
          /\ calls[k].pc = "clear" /\ calls'[k].pc # "clear" =>
                /\ clears' = clears
                /\ \A j \in CallIds : calls'[j].timer = calls[j].timer]_vars

\* load 2 (delay 1) has just returned, its clear is not due, and the tag is
\* already none: the clear of load 1, which returned a time unit earlier, fired
C13_Witness ==
    /\ Returned(1) /\ calls[1].timer = "fired" /\ calls[1].age >= 1
    /\ Returned(2) /\ calls[2].timer = "pending" /\ calls[2].sec = 1
    /\ calls[2].age = 0 /\ ~ClearDue(2)
    /\ \A k \in CallIds \ {1, 2} : calls[k].pc = "new"
    /\ nfc = NoTag /\ clears = 1

\* C14: on JOYCON_L every nfc call fails with UnsupportedOperation whatever
\* the path, the empty path included; on a controller with nfc support the
\* empty path fails with MissingArgument; a failing check leaves the tag and
\* the clear tasks as they were.
C14_NfcChecks ==
    /\ [](\A k \in CallIds :
             calls[k].pc # "new" =>
                /\ controller = "JOYCON_L" =>
                      /\ calls[k].pc = "failed" /\ calls[k].timer = "none"
                      /\ calls[k].err = "UnsupportedOperation"
                /\ controller # "JOYCON_L" /\ calls[k].path = "" =>
                      /\ calls[k].pc = "failed" /\ calls[k].timer = "none"
                      /\ calls[k].err = "MissingArgument")
    /\ [][\A k \in CallIds :
             calls[k].pc = "new" /\ calls'[k].pc = "failed" =>
                /\ nfc' = nfc /\ clears' = clears
                /\ \A j \in CallIds : calls'[j].timer = calls[j].timer]_vars

\* JOYCON_L: a call with the empty path and a call with a readable path failed
C14_Witness ==
    /\ controller = "JOYCON_L"
    /\ calls[1].pc = "failed" /\ calls[1].path = "" /\ calls[1].err = "UnsupportedOperation"
    /\ calls[2].pc = "failed" /\ calls[2].path = "f" /\ calls[2].err = "UnsupportedOperation"
    /\ nfc = NoTag /\ clears = 0

\* C19: the pending clear tasks are exactly the loads that returned minus the
\* clears that fired (and the count the device keeps agrees), a pending clear
\* stays pending until it fires, and once no more loads are called every
\* clear fires: from some point on no clear is pending and the tag is none.
PendingClears == {k \in CallIds : calls[k].timer = "pending"}
FiredClears == {k \in CallIds : calls[k].timer = "fired"}
Loads == {k \in CallIds : Returned(k)}

C19_ClearsDrain ==
    /\ [](/\ Cardinality(PendingClears) = Cardinality(Loads) - Cardinality(FiredClears)
          /\ clears = Cardinality(PendingClears)
          /\ FiredClears \subseteq Loads /\ PendingClears \subseteq Loads)
    /\ [][\A k \in CallIds :
             calls[k].timer = "pending" => calls'[k].timer \in {"pending", "fired"}]_vars
    /\ <>[](clears = 0 /\ PendingClears = {} /\ nfc = NoTag)

\* two loads returned and both clears have fired
C19_Witness ==
    /\ Loads = {1, 2} /\ FiredClears = {1, 2} /\ PendingClears = {}
    /\ calls[1].sec = 1 /\ calls[2].sec = 0
    /\ clears = 0 /\ nfc = NoTag

----------------------------------------------------------------------------
\* cmd_stick on its own: one call cmd_stick(side, direction, value) from any
\* stick positions, and the same call once more.

StickStarts == {InitStick, Preset("up"), [h |-> 500, v |-> 7]}
StickSides == {"l", "left", "r", "right", "x"}
StickDirections == PresetDirections \cup {"h", "horizontal", "v", "vertical", "diag"}
StickValues == {NoValue, "0", "500", "abc"}

\* the first call: l0, r0 the sticks before it, l1, r1 after it
CallStick(side, direction, value) ==
    /\ call.op = "none"
    /\ LET res == cmd_stick(lstick, rstick, side, direction, value)
       IN  /\ lstick' = res.l
           /\ rstick' = res.r
           /\ call' = [op |-> "stick", side |-> side, direction |-> direction,
                       value |-> value, n |-> 1, err |-> res.err,
                       l0 |-> lstick, r0 |-> rstick, l1 |-> res.l, r1 |-> res.r]
    /\ UNCHANGED <<commands, server, conn, buttons, nfc, clears, linkUp, controller,
                   pline, pout, regLog, calls>>

\* the same call again
RepeatStick ==
    /\ call.op = "stick" /\ call.n = 1
    /\ LET res == cmd_stick(lstick, rstick, call.side, call.direction, call.value)
       IN  /\ lstick' = res.l
           /\ rstick' = res.r
           /\ call' = [call EXCEPT !.n = 2, !.err = res.err]
    /\ UNCHANGED <<commands, server, conn, buttons, nfc, clears, linkUp, controller,
                   pline, pout, regLog, calls>>

InitStickCalls ==
    /\ commands = ProgramCommands
    /\ server = "serving"
    /\ conn = [c \in Conns |-> NewConn]
    /\ buttons = {}
    /\ lstick \in StickStarts
    /\ rstick \in StickStarts
    /\ nfc = NoTag
    /\ clears = 0
    /\ linkUp = TRUE
    /\ controller = "PRO_CONTROLLER"
    /\ pline = <<>>
    /\ pout = NotStarted
    /\ regLog = <<>>
    /\ calls = <<>>
    /\ call = NoCall

NextStick ==
    \/ \E side \in StickSides, direction \in StickDirections, value \in StickValues :
          CallStick(side, direction, value)
    \/ RepeatStick

SpecStick == InitStickCalls /\ [][NextStick]_vars

StickCalled == call.op = "stick"
LeftSides == {"l", "left"}
RightSides == {"r", "right"}
AxisH == {"h", "horizontal"}
AxisV == {"v", "vertical"}

\* C15: cmd_stick fails, both sticks as before, with this precedence: a side
\* outside l, left, r, right is InvalidSide whatever the direction; else a
\* direction outside the presets and h, horizontal, v, vertical is
\* InvalidDirection; else h/v without a value is MissingValue and with a
\* value that is no integer InvalidValue.
C15_StickFailures ==
    StickCalled =>
       /\ call.err = IF call.side \notin LeftSides \cup RightSides THEN "InvalidSide"
                     ELSE IF call.direction \in PresetDirections THEN "none"
                     ELSE IF call.direction \notin AxisH \cup AxisV THEN "InvalidDirection"
                     ELSE IF call.value = NoValue THEN "MissingValue"
                     ELSE IF call.value \notin {"0", "500"} THEN "InvalidValue"
                     ELSE "none"
       /\ call.err # "none" => lstick = call.l0 /\ rstick = call.r0

\* an unknown side with an unknown direction, the sticks off their start values
C15_Witness ==
    /\ StickCalled /\ call.n = 2
    /\ call.side = "x" /\ call.direction = "diag" /\ call.err = "InvalidSide"
    /\ lstick = [h |-> 500, v |-> 7] /\ rstick = Preset("up")

\* C16: a cmd_stick that succeeds changes the stick of its side only: a preset
\* sets it to the preset's (h, v) whatever the value, h sets h and keeps v,
\* v sets v and keeps h; the same call once more changes nothing.
C16_StickEffect ==
    StickCalled /\ call.err = "none" =>
       LET sel  == IF call.side \in LeftSides THEN lstick ELSE rstick
           sel0 == IF call.side \in LeftSides THEN call.l0 ELSE call.r0
       IN  /\ call.side \in LeftSides => rstick = call.r0
           /\ call.side \in RightSides => lstick = call.l0
           /\ call.direction \in PresetDirections => sel = Preset(call.direction)
           /\ call.direction \in AxisH =>
                 sel.h = (IF call.value = "500" THEN 500 ELSE 0) /\ sel.v = sel0.v
           /\ call.direction \in AxisV =>
                 sel.v = (IF call.value = "500" THEN 500 ELSE 0) /\ sel.h = sel0.h
           /\ lstick = call.l1 /\ rstick = call.r1

\* stick r h 500 twice from (500, 7) left and up right: right is (500, 4095)
C16_Witness ==
    /\ StickCalled /\ call.n = 2 /\ call.err = "none"
    /\ call.side = "r" /\ call.direction = "h" /\ call.value = "500"
    /\ call.l0 = [h |-> 500, v |-> 7] /\ call.r0 = Preset("up")
    /\ lstick = [h |-> 500, v |-> 7] /\ rstick = [h |-> 500, v |-> 4095]

----------------------------------------------------------------------------
\* hold and release on their own: one call hold(*args) or release(*args)
\* with any buttons held before it.

ButtonNames == {"a", "up", "l", "zz"}
ButtonArgs == UNION {[1..n -> ButtonNames] : n \in 0..MaxArgs}

\* the call up to controller_state.connect(); b0 the buttons held before it
CallButtons(op, args) ==
    /\ call.op = "none"
    /\ call' = [op |-> op, args |-> args, b0 |-> buttons,
                err |-> button_checks(controller, args),
                pc |-> IF button_checks(controller, args) = "none"
                       THEN "connect" ELSE "failed"]
    /\ UNCHANGED <<commands, server, conn, device, linkUp, controller, pline, pout,
                   regLog, calls>>

\* connect() has returned: button_press / button_release
ResumeButtons ==
    /\ call.op \in {"hold", "release"} /\ call.pc = "connect"
    /\ buttons' = IF call.op = "hold" THEN hold_resume(buttons, call.args)
                  ELSE release_resume(buttons, call.args)
    /\ call' = [call EXCEPT !.pc = "done"]
    /\ UNCHANGED <<commands, server, conn, lstick, rstick, nfc, clears, linkUp,
                   controller, pline, pout, regLog, calls>>

InitButtons ==
    /\ commands = ProgramCommands
    /\ server = "serving"
    /\ conn = [c \in Conns |-> NewConn]
    /\ controller \in Controllers
    /\ buttons \in SUBSET AvailableButtons(controller)
    /\ lstick = InitStick
    /\ rstick = InitStick
    /\ nfc = NoTag
    /\ clears = 0
    /\ linkUp = TRUE
    /\ pline = <<>>
    /\ pout = NotStarted
    /\ regLog = <<>>
    /\ calls = <<>>
    /\ call = NoCall

NextButtons ==
    \/ \E op \in {"hold", "release"}, args \in ButtonArgs : CallButtons(op, args)
    \/ ResumeButtons

SpecButtons == InitButtons /\ [][NextButtons]_vars

ButtonsCalled == call.op \in {"hold", "release"}
InvalidButtons(args) ==
    {args[i] : i \in 1..Len(args)} \ AvailableButtons(controller)

\* C17: hold and release with a button the controller does not have fail with
\* ValidationError and the held buttons stay as they were; with several
\* buttons one invalid button is enough and none of the others is pressed or
\* released.
C17_ButtonsValidatedFirst ==
    ButtonsCalled /\ InvalidButtons(call.args) # {} =>
       /\ call.pc = "failed" /\ call.err = "ValidationError"
       /\ buttons = call.b0

\* hold(a, zz) and release(up, zz) with up held: up is still the only one held
C17_Witness ==
    /\ controller = "PRO_CONTROLLER" /\ ButtonsCalled
    /\ call.args \in {<<"a", "zz">>, <<"up", "zz">>}
    /\ call.op = (IF call.args[1] = "a" THEN "hold" ELSE "release")
    /\ call.pc = "failed" /\ call.err = "ValidationError"
    /\ call.b0 = {"up"} /\ buttons = {"up"}

----------------------------------------------------------------------------
\* The server with clients that send nfc lines only, one path of which
\* cannot be opened and one cannot be read.

NfcLines == {<<"nfc", "f">>, <<"nfc", "nofile">>, <<"nfc", "bad">>}

NextNfcLines ==
    \/ \E c \in Conns : Accept(c)
    \/ \E c \in Conns, line \in NfcLines : ReadLine(c, line, FALSE)
    \/ \E c \in Conns : NfcClear(c)
    \/ \E c \in Conns : NfcRead(c)
    \/ \E c \in Conns : Flush(c)
    \/ ClearFires
    \/ LinkLost

SpecNfcLines == InitHold /\ [][NextNfcLines]_vars

LoadFails(c) == conn[c].handler = "nfc" /\ conn[c].args[1] \notin Readable
Leaves(c, pc) == conn[c].pc = pc /\ conn'[c].pc # pc

\* C18: an nfc line that passes the checks and whose file cannot be opened or
\* read fails after clear_nfc(0) has run: the clear sets the tag to none, the
\* failing step starts no clear task and does not set the tag, and the line
\* goes on to the flush with the failure caught; no exception but
\* NotConnected from the flush ends the connection.
C18_LoadFailsAfterClear ==
    /\ [][\A c \in Conns :
             /\ Leaves(c, "nfc_clear") =>
                   /\ nfc' = NoTag /\ clears' = clears
                   /\ conn[c].args[1] \notin Readable \cup Broken =>
                         conn'[c].pc = "flush" /\ conn'[c].err = "IOError"
                   /\ conn[c].args[1] \in Broken => conn'[c].pc = "nfc_read"
             /\ Leaves(c, "nfc_read") /\ LoadFails(c) =>
                   /\ nfc' = nfc /\ clears' = clears
                   /\ conn'[c].pc = "flush" /\ conn'[c].err = "IOError"]_vars
    /\ [](\A c \in Conns :
             /\ conn[c].pc = "nfc_read" => conn[c].args[1] \in Readable \cup Broken
             /\ LoadFails(c) /\ conn[c].pc \notin {"nfc_clear", "nfc_read"} =>
                   conn[c].err = "IOError"
             /\ conn[c].err = "IOError" =>
                   /\ LoadFails(c)
                   /\ conn[c].pc = "flush" \/ conn[c].flushed
                   /\ conn[c].raised \in {"none", "NotConnected"}
                   /\ conn[c].pc = "dead" => conn[c].raised = "NotConnected")

\* connection 2 loaded f, whose clear is still pending; connection 1 then sent
\* nfc:nofile: the tag is none, the line is done and flushed, 1 reads on
C18_Witness ==
    /\ conn[1].line = <<"nfc", "nofile">> /\ conn[1].err = "IOError"
    /\ conn[1].pc = "read" /\ conn[1].flushed /\ conn[1].ndone = 1
    /\ conn[2].line = <<"nfc", "f">> /\ conn[2].pc = "read" /\ conn[2].ndone = 1
    /\ nfc = NoTag /\ clears = 1

----------------------------------------------------------------------------
\* The server with clients that send stick lines only.

StickLines ==
    { <<"stick", "l", "up", "true">>, <<"stick", "r", "down", "true">>,
      <<"stick", "l", "h", "true">>, <<"stick", "r", "vertical", "true">>,
      <<"stick", "x", "h", "true">>, <<"stick", "r", "h", "false">>,
      <<"stick", "l", "h", "500", "true">> }

NextStickLines ==
    \/ \E c \in Conns : Accept(c)
    \/ \E c \in Conns, line \in StickLines : ReadLine(c, line, FALSE)
    \/ \E c \in Conns : Flush(c)
    \/ LinkLost

SpecStickLines == InitHold /\ [][NextStickLines]_vars

StickPositions == {InitStick} \cup {Preset(d) : d \in PresetDirections}
AxisLine(line) ==
    /\ Len(line) = 4 /\ line[1] = "stick" /\ line[4] = "true"
    /\ line[3] \in {"h", "horizontal", "v", "vertical"}
ValidSides == {"l", "left", "r", "right"}

\* C20 as stated: the parser never hands a value to cmd_stick, so a stick
\* line with direction h, horizontal, v or vertical and final field true
\* always fails with MissingValue and changes nothing; each stick is at its
\* initial position or at one of the five presets.
C20_AxisLineMissingValue ==
    /\ [](\A c \in Conns :
             /\ conn[c].cmd = "stick" => Len(conn[c].args) = 2
             /\ conn[c].nread > 0 /\ AxisLine(conn[c].line) =>
                   conn[c].err = "MissingValue")
    /\ [][\A c \in Conns :
             conn'[c].nread # conn[c].nread /\ AxisLine(conn'[c].line) =>
                lstick' = lstick /\ rstick' = rstick]_vars
    /\ [](lstick \in StickPositions /\ rstick \in StickPositions)

\* C20 amended: the parser never hands a value to cmd_stick, so a stick line
\* with direction h, horizontal, v or vertical and final field true always
\* fails and changes nothing, with MissingValue when its side is l, left, r
\* or right and with InvalidSide otherwise; each stick is at its initial
\* position or at one of the five presets.
C20_AxisLineFails ==
    /\ [](\A c \in Conns :
             /\ conn[c].cmd = "stick" => Len(conn[c].args) = 2
             /\ conn[c].nread > 0 /\ AxisLine(conn[c].line) =>
                   conn[c].err = IF conn[c].line[2] \in ValidSides
                                 THEN "MissingValue" ELSE "InvalidSide")
    /\ [][\A c \in Conns :
             conn'[c].nread # conn[c].nread /\ AxisLine(conn'[c].line) =>
                lstick' = lstick /\ rstick' = rstick]_vars
    /\ [](lstick \in StickPositions /\ rstick \in StickPositions)

\* stick:l:up:true and stick:r:down:true on connection 2, then stick:l:h:true
\* on connection 1: MissingValue, flushed, the sticks still up and down
C20_Witness ==
    /\ conn[1].line = <<"stick", "l", "h", "true">> /\ conn[1].err = "MissingValue"
    /\ conn[1].flushed /\ conn[1].pc = "read"
    /\ conn[2].nread = 2 /\ conn[2].ndone = 2
    /\ lstick = Preset("up") /\ rstick = Preset("down")

============================================================================
